---- MODULE Spec2Model ----
(***************************************************************************)
(* A model of restream_io: the token store (config.py), the construction   *)
(* of a client from the stored tokens with the refresh of an expired token *)
(* (api.py, RestreamClient.from_config and _refresh_token), and the data   *)
(* calls of a client (api.py, _make_request and the four read operations)  *)
(* under the retry wrapper of utils.py.                                    *)
(***************************************************************************)
EXTENDS Integers, Sequences, FiniteSets, TLC

\* ------------------------------------------------------------------ bounds

\* The clock (time.time()) runs from 1 to MaxTime.
MaxTime == 2

\* The processes (sessions) that share one token file.
Procs == {1, 2}

\* ------------------------------------------------------ optional values

\* Python's None / an absent dict key is <<>>, a present value v is <<v>>.
None == <<>>
Some(v) == <<v>>

\* Python truthiness of an optional string: None and "" are falsy.
TruthyStr(o) == o /= None /\ o[1] /= ""

\* Python truthiness of an optional number: None and 0 are falsy.
TruthyNum(o) == o /= None /\ o[1] /= 0

\* --------------------------------------------------------- token sets

\* A token dict: the three keys the program reads, each present or not.
Tok(a, r, e) == [access_token |-> a, refresh_token |-> r, expires_at |-> e]

\* The dict {} (falsy in Python).
EmptyDict == Tok(None, None, None)

Keys == <<"access_token", "refresh_token", "expires_at">>

\* What a login may have left in the store.
StoredTokens ==
    { Tok(a, r, e) : a \in {None, Some(""), Some("A0")},
                     r \in {None, Some("R0")},
                     e \in {None} \cup { Some(n) : n \in 0..(MaxTime + 1) } }

\* What the provider's token endpoint may answer with status 2xx: a full
\* token set, one without refresh token and expiry, one that is already
\* expired on arrival, and one without an access_token field.
Payloads ==
    { Tok(Some("A1"), Some("R1"), Some(MaxTime + 1)),
      Tok(Some("A2"), None, None),
      Tok(Some("A3"), Some("R1"), Some(1)),
      Tok(None, Some("R1"), None) }

\* ------------------------------------------------- the token file's text

\* json.dump(data, f, indent=2): the text as a sequence of chunks, an
\* opening brace, a key chunk and a value chunk per present key, a closing
\* brace.
LBrace == <<"{">>
RBrace == <<"}">>
KeyChunk(k) == <<"key", k>>
ValChunk(k, v) == IF k = "expires_at" THEN <<"num", v>> ELSE <<"str", v>>

RECURSIVE DumpFields(_, _)
DumpFields(d, i) ==
    IF i > Len(Keys) THEN <<>>
    ELSE LET k == Keys[i]
         IN  (IF d[k] = None THEN <<>>
              ELSE <<KeyChunk(k), ValChunk(k, d[k][1])>>)
             \o DumpFields(d, i + 1)

json_dump(d) == <<LBrace>> \o DumpFields(d, 1) \o <<RBrace>>

\* json.load(f): the text is a JSON object exactly when it is an opening
\* brace, key/value chunk pairs with distinct keys, and a closing brace.
WellFormed(text) ==
    /\ Len(text) >= 2
    /\ text[1] = LBrace
    /\ text[Len(text)] = RBrace
    /\ (Len(text) - 2) % 2 = 0
    /\ \A i \in 1..((Len(text) - 2) \div 2) :
          /\ Len(text[2 * i]) = 2
          /\ text[2 * i][1] = "key"
          /\ Len(text[2 * i + 1]) = 2
          /\ text[2 * i + 1][1] \in {"str", "num"}
    /\ \A i, j \in 1..((Len(text) - 2) \div 2) :
          i /= j => text[2 * i][2] /= text[2 * j][2]

FieldOf(text, k) ==
    LET hits == { i \in 1..((Len(text) - 2) \div 2) : text[2 * i] = KeyChunk(k) }
    IN  IF hits = {} THEN None ELSE Some(text[2 * (CHOOSE i \in hits : TRUE) + 1][2])

json_load(text) ==
    Tok(FieldOf(text, "access_token"),
        FieldOf(text, "refresh_token"),
        FieldOf(text, "expires_at"))

\* The file tokens.json: absent, or present with a text.
NoFile == [exists |-> FALSE, text |-> <<>>]
FileWith(text) == [exists |-> TRUE, text |-> text]

\* A bug: the file is opened without truncation (mode "r+" or "a" for "w").
OpenKeepsText(f) == FileWith(f.text)

\* open(path, "w"): creates or truncates.
OpenTruncate(f) == FileWith(<<>>)

\* A write of data through a descriptor positioned at offset 0: the first
\* Len(data) chunks are replaced, what lies beyond them stays.
WriteAt0(f, data) ==
    FileWith(data \o SubSeq(f.text, Len(data) + 1, Len(f.text)))

\* load_tokens(): None when the file does not exist, the decoded dict, or
\* RuntimeError when the text does not decode.
load_tokens(f) ==
    IF ~f.exists THEN [err |-> "", val |-> None]
    ELSE IF WellFormed(f.text) THEN [err |-> "", val |-> Some(json_load(f.text))]
    ELSE [err |-> "RuntimeError", val |-> None]

\* What load_tokens() may end in: the file read and decoded, or, of a file
\* that exists, the open or the read failing (OSError, made RuntimeError).
Loads(f) ==
    { [err |-> r.err, val |-> r.val, fault |-> IF r.err = "" THEN "" ELSE "decode"]
        : r \in {load_tokens(f)} }
    \cup (IF f.exists
          THEN {[err |-> "RuntimeError", val |-> None, fault |-> "read"]}
          ELSE {})

\* ------------------------------------------------------------- state

VARIABLES
    store,        \* the file tokens.json under CONFIG_PATH
    lastWriter,   \* the process whose json.dump reached the file last, 0 for none
    clientId,     \* the environment's RESTREAM_CLIENT_ID, None when unset
    now,          \* time.time()
    jsonError,    \* what response.json() raises on undecodable text
    pc,           \* pc[p]: where process p stands
    tokens,       \* tokens[p]: what load_tokens() returned to from_config
    tnow,         \* tnow[p]: the time from_config read for its expiry check
    payload,      \* payload[p]: token_response of _refresh_token
    tokResp,      \* tokResp[p]: how the POST of _refresh_token ended
    ioFault,      \* ioFault[p]: the step of the store access that failed
    tokReqs,      \* tokReqs[p]: POSTs to the token endpoint in this from_config
    outcome,      \* outcome[p]: "", "client", or the exception raised
    excMessage,   \* excMessage[p]: what the exception raised says
    clientToken,  \* clientToken[p]: self.token of the client returned
    sessionAuth,  \* sessionAuth[s]: session.headers["Authorization"] of session s
    sessionOf,    \* sessionOf[p]: self.session of the client of process p
    storeAtStart  \* storeAtStart[p]: the store when from_config was called

\* The requests.Session objects: the one from_config makes for itself when
\* it is given none, and the ones a caller makes and hands to the
\* constructor.
OwnSession(p) == <<"own", p>>
CallerSessions == { <<"caller", 1>>, <<"caller", 2>> }
Sessions == { OwnSession(p) : p \in Procs } \cup CallerSessions

authVars == <<pc, tokens, tnow, payload, tokResp, ioFault, tokReqs, outcome, excMessage, clientToken,
              sessionAuth, sessionOf, storeAtStart>>
envVars == <<clientId, now, jsonError>>

\* What an exception says: its text and, where the text names one, the
\* status code; NoMessage for the exceptions whose text the model leaves
\* out.
Message(text, status) == [text |-> text, status |-> status]
NoMessage == Message("", None)

\* f"Bearer {token}"
Bearer(token) == <<"Bearer", token>>

AuthInit ==
    /\ store \in {NoFile} \cup { FileWith(json_dump(t)) : t \in StoredTokens }
    /\ lastWriter = 0
    /\ clientId \in {None, Some("cid")}
    /\ now = 1
    /\ jsonError \in {"RequestException", "ValueError"}
    /\ pc = [p \in Procs |-> "idle"]
    /\ tokens = [p \in Procs |-> None]
    /\ tnow = [p \in Procs |-> 0]
    /\ payload = [p \in Procs |-> None]
    /\ tokResp = [p \in Procs |-> None]
    /\ ioFault = [p \in Procs |-> ""]
    /\ tokReqs = [p \in Procs |-> 0]
    /\ outcome = [p \in Procs |-> ""]
    /\ excMessage = [p \in Procs |-> NoMessage]
    /\ clientToken = [p \in Procs |-> None]
    /\ sessionAuth = [s \in Sessions |-> None]
    /\ sessionOf = [p \in Procs |-> OwnSession(p)]
    /\ storeAtStart = [p \in Procs |-> NoFile]

\* ------------------------------------------- RestreamClient.from_config

\* raise exc out of from_config: no client is returned (the session
\* from_config made has no client on it).
RaiseMsg(p, exc, msg) ==
    /\ pc' = [pc EXCEPT ![p] = "failed"]
    /\ outcome' = [outcome EXCEPT ![p] = exc]
    /\ excMessage' = [excMessage EXCEPT ![p] = msg]
    /\ clientToken' = [clientToken EXCEPT ![p] = None]
    /\ sessionAuth' = [sessionAuth EXCEPT ![OwnSession(p)] = None]
    /\ sessionOf' = [sessionOf EXCEPT ![p] = OwnSession(p)]

Raise(p, exc) == RaiseMsg(p, exc, NoMessage)

\* return cls(session, access_token): __init__ keeps the token and sets the
\* session's Authorization header.
Construct(p, token, session) ==
    /\ pc' = [pc EXCEPT ![p] = "ready"]
    /\ outcome' = [outcome EXCEPT ![p] = "client"]
    /\ excMessage' = [excMessage EXCEPT ![p] = NoMessage]
    /\ clientToken' = [clientToken EXCEPT ![p] = Some(token)]
    /\ sessionOf' = [sessionOf EXCEPT ![p] = session]
    /\ sessionAuth' = [sessionAuth EXCEPT ![session] = Some(Bearer(token))]

\* A bug: a token set without expires_at counts as expired.
ExpiredWhenAbsent(expires_at, t) ==
    expires_at = None \/ (TruthyNum(expires_at) /\ t >= expires_at[1])

\* expires_at and time.time() >= expires_at
Expired(expires_at, t) == TruthyNum(expires_at) /\ t >= expires_at[1]

\* A bug: the expiry is looked at before the access token is.
FromConfigDecisionExpiryFirst(t, time) ==
    IF t = None \/ t[1] = EmptyDict THEN "no_tokens"
    ELSE IF Expired(t[1].expires_at, time)
         THEN IF TruthyStr(t[1].refresh_token) THEN "refresh" ELSE "expired"
    ELSE IF ~TruthyStr(t[1].access_token) THEN "no_access_token"
    ELSE "use_stored"

\* The checks of from_config on the loaded tokens, in the code's order:
\* what the call does next.
FromConfigDecision(t, time) ==
    IF t = None \/ t[1] = EmptyDict THEN "no_tokens"
    ELSE IF ~TruthyStr(t[1].access_token) THEN "no_access_token"
    ELSE IF Expired(t[1].expires_at, time)
         THEN IF TruthyStr(t[1].refresh_token) THEN "refresh" ELSE "expired"
    ELSE "use_stored"

\* from_config up to its call of _refresh_token: load_tokens(), the checks,
\* and either a failure, the client on the stored token, or the refresh.
from_config(p) ==
    /\ pc[p] \in {"idle", "ready", "failed"}
    /\ \E r \in Loads(store) :
       LET d == FromConfigDecision(r.val, now)
       IN  /\ tokens' = [tokens EXCEPT ![p] = r.val]
           /\ tnow' = [tnow EXCEPT ![p] = now]
           /\ payload' = [payload EXCEPT ![p] = None]
           /\ tokResp' = [tokResp EXCEPT ![p] = None]
           /\ ioFault' = [ioFault EXCEPT ![p] = r.fault]
           /\ tokReqs' = [tokReqs EXCEPT ![p] = 0]
           /\ storeAtStart' = [storeAtStart EXCEPT ![p] = store]
           /\ IF r.err /= "" THEN Raise(p, r.err)
              ELSE IF d \in {"no_tokens", "no_access_token", "expired"}
                   THEN Raise(p, "AuthenticationError")
              ELSE IF d = "refresh"
                   THEN /\ pc' = [pc EXCEPT ![p] = "refresh"]
                        /\ outcome' = [outcome EXCEPT ![p] = ""]
                        /\ excMessage' = [excMessage EXCEPT ![p] = NoMessage]
                        /\ clientToken' = [clientToken EXCEPT ![p] = None]
                        /\ sessionAuth' = [sessionAuth EXCEPT ![OwnSession(p)] = None]
                        /\ sessionOf' = [sessionOf EXCEPT ![p] = OwnSession(p)]
              ELSE Construct(p, r.val[1].access_token[1], OwnSession(p))
    /\ UNCHANGED <<store, lastWriter, envVars>>

\* ------------------------------------------ RestreamClient._refresh_token

\* What requests.post on the token endpoint may come back with.
TokenResponses ==
    { [kind |-> "transport", status |-> 0, body |-> None] }
    \cup { [kind |-> "http", status |-> s, body |-> None] : s \in {400, 401, 500} }
    \cup { [kind |-> "badjson", status |-> s, body |-> None] : s \in {200, 304} }
    \cup { [kind |-> "http", status |-> 200, body |-> Some(pl)] : pl \in Payloads }

\* response.ok
ResponseOk(status) == status < 400

\* _refresh_token up to save_tokens: the client id check, the POST, and
\* the reading of the response.
refresh_token_post(p) ==
    /\ pc[p] = "refresh"
    /\ IF ~TruthyStr(clientId)
       THEN /\ RaiseMsg(p, "AuthenticationError",
                        Message("RESTREAM_CLIENT_ID environment variable not set", None))
            /\ UNCHANGED <<payload, tokResp, tokReqs>>
       ELSE /\ tokReqs' = [tokReqs EXCEPT ![p] = @ + 1]
            /\ \E resp \in TokenResponses :
                 /\ tokResp' = [tokResp EXCEPT ![p] =
                                   Some([kind |-> resp.kind, status |-> resp.status])]
                 /\ IF resp.kind = "transport"
                    THEN /\ RaiseMsg(p, "AuthenticationError",
                                     Message("Network error during token refresh: ConnectionError",
                                             None))
                         /\ UNCHANGED payload
                    ELSE IF ~ResponseOk(resp.status)
                    THEN /\ RaiseMsg(p, "AuthenticationError",
                                     Message("Token refresh failed: ", Some(resp.status)))
                         /\ UNCHANGED payload
                    ELSE IF resp.kind = "badjson"
                    \* response.json() raises requests' JSONDecodeError, a
                    \* RequestException (caught) from requests 2.27 on and a
                    \* plain ValueError before.
                    THEN /\ IF jsonError = "RequestException"
                            THEN RaiseMsg(p, "AuthenticationError",
                                          Message("Network error during token refresh: JSONDecodeError",
                                                  None))
                            ELSE Raise(p, "ValueError")
                         /\ UNCHANGED payload
                    ELSE /\ payload' = [payload EXCEPT ![p] = resp.body]
                         /\ pc' = [pc EXCEPT ![p] = "save_dir"]
                         /\ UNCHANGED <<outcome, excMessage, clientToken, sessionAuth, sessionOf>>
    /\ UNCHANGED <<store, lastWriter, envVars, tokens, tnow, ioFault, storeAtStart>>

\* ---------------------------------------------------------- save_tokens

\* ensure_config_dir(): mkdir and chmod, outside save_tokens' try.
ensure_config_dir(p) ==
    /\ pc[p] = "save_dir"
    /\ \/ /\ pc' = [pc EXCEPT ![p] = "save_open"]
          /\ UNCHANGED <<ioFault, outcome, excMessage, clientToken, sessionAuth, sessionOf>>
       \/ /\ Raise(p, "OSError")
          /\ \E step \in {"mkdir", "chmod_dir"} : ioFault' = [ioFault EXCEPT ![p] = step]
    /\ UNCHANGED <<store, lastWriter, envVars, tokens, tnow, payload, tokResp, tokReqs, storeAtStart>>

\* open(path, "w")
save_tokens_open(p) ==
    /\ pc[p] = "save_open"
    /\ \/ /\ store' = OpenTruncate(store)
          /\ pc' = [pc EXCEPT ![p] = "save_write"]
          /\ UNCHANGED <<ioFault, outcome, excMessage, clientToken, sessionAuth, sessionOf>>
       \/ /\ Raise(p, "RuntimeError")
          /\ ioFault' = [ioFault EXCEPT ![p] = "open"]
          /\ UNCHANGED store
    /\ UNCHANGED <<lastWriter, envVars, tokens, tnow, payload, tokResp, tokReqs, storeAtStart>>

\* What the file holds once data (all of it, or its first n chunks when the
\* write fails part-way) went through the descriptor.
Written(f, data, n) == WriteAt0(f, SubSeq(data, 1, n))

\* The write as it would be were the failure of save_tokens caught by the
\* except clause of _refresh_token and made an AuthenticationError.
save_tokens_write_caught(p) ==
    /\ pc[p] = "save_write"
    /\ LET data == json_dump(payload[p][1])
       IN  \/ /\ store' = Written(store, data, Len(data))
              /\ pc' = [pc EXCEPT ![p] = "save_chmod"]
              /\ UNCHANGED <<ioFault, outcome, excMessage, clientToken, sessionAuth, sessionOf>>
           \/ /\ \E n \in 0..(Len(data) - 1) : store' = Written(store, data, n)
              /\ RaiseMsg(p, "AuthenticationError",
                          Message("Network error during token refresh: RuntimeError", None))
              /\ ioFault' = [ioFault EXCEPT ![p] = "write"]
    /\ lastWriter' = p
    /\ UNCHANGED <<envVars, tokens, tnow, payload, tokResp, tokReqs, storeAtStart>>

\* json.dump(data, f, indent=2) and the close of the with block: the text
\* reaches the file when the buffer is flushed.
save_tokens_write(p) ==
    /\ pc[p] = "save_write"
    /\ LET data == json_dump(payload[p][1])
       IN  \/ /\ store' = Written(store, data, Len(data))
              /\ pc' = [pc EXCEPT ![p] = "save_chmod"]
              /\ UNCHANGED <<ioFault, outcome, excMessage, clientToken, sessionAuth, sessionOf>>
           \/ /\ \E n \in 0..(Len(data) - 1) : store' = Written(store, data, n)
              /\ Raise(p, "RuntimeError")
              /\ ioFault' = [ioFault EXCEPT ![p] = "write"]
    /\ lastWriter' = p
    /\ UNCHANGED <<envVars, tokens, tnow, payload, tokResp, tokReqs, storeAtStart>>

\* path.chmod(0o600), the return of save_tokens, and the rest of
\* _refresh_token and from_config: token_response["access_token"] and
\* cls(session, access_token).
save_tokens_chmod(p) ==
    /\ pc[p] = "save_chmod"
    /\ \/ /\ IF payload[p][1].access_token = None
             THEN Raise(p, "KeyError")
             ELSE Construct(p, payload[p][1].access_token[1], OwnSession(p))
          /\ UNCHANGED ioFault
       \/ /\ Raise(p, "RuntimeError")
          /\ ioFault' = [ioFault EXCEPT ![p] = "chmod"]
    /\ UNCHANGED <<store, lastWriter, envVars, tokens, tnow, payload, tokResp, tokReqs, storeAtStart>>

\* -------------------------------------------------------------- clock

Tick ==
    /\ now < MaxTime
    /\ now' = now + 1
    /\ UNCHANGED <<store, lastWriter, clientId, jsonError, authVars>>

\* ------------------------------------------------------ JSON values

\* A decoded JSON value, as Python holds it. A string is the sequence of
\* its segments (the pieces its text falls into, "" being <<>>), so that
\* a suffix can be tested and replaced.
JNull == [t |-> "null"]
JBool(b) == [t |-> "bool", b |-> b]
JNum(n) == [t |-> "num", n |-> n]
JStr(segs) == [t |-> "str", s |-> segs]
JArr(items) == [t |-> "arr", a |-> items]
JObj(fields) == [t |-> "obj", o |-> fields]

\* A string of one segment.
S(x) == JStr(<<x>>)

\* The dict {}.
NoFields == [k \in {} |-> JNull]

\* bool(v)
Truthy(v) ==
    CASE v.t = "null" -> FALSE
      [] v.t = "bool" -> v.b
      [] v.t = "num" -> v.n /= 0
      [] v.t = "str" -> v.s /= <<>>
      [] v.t = "arr" -> v.a /= <<>>
      [] v.t = "obj" -> DOMAIN v.o /= {}

\* d.get(k, default) on a dict d (on a value that is no dict, where the
\* callers have raised before they use the result, the default).
Get(d, k, default) ==
    IF d.t = "obj" /\ k \in DOMAIN d.o THEN d.o[k] ELSE default

\* The(S) is the element of a one-element set: The({ e(x) : x \in {v} })
\* is e(v) with v evaluated once.
The(set) == CHOOSE y \in set : TRUE

\* The outcome of an evaluation: a value, or the exception raised.
Ok(v) == [err |-> "", val |-> v]
Err(e) == [err |-> e, val |-> JNull]

\* ------------------------------------------------------ _parse_datetime

\* The wall-clock texts and UTC offsets the timestamps are made of, with
\* the hour each stands for.
WallHour(seg) ==
    CASE seg = "2024-01-20T09:00:00" -> 9
      [] seg = "2024-01-20T10:00:00" -> 10
      [] OTHER -> -1

OffsetHours(seg) ==
    CASE seg = "+00:00" -> 0
      [] seg = "+01:00" -> 1
      [] OTHER -> -1

\* A datetime: two aware ones are equal when they are the same instant,
\* an aware and a naive one never are.
DateTime(aware, hour) == [t |-> "datetime", aware |-> aware, hour |-> hour]

\* datetime.fromisoformat(s): a wall-clock text alone (naive) or followed
\* by an offset (aware); ValueError on anything else.
fromisoformat(segs) ==
    IF Len(segs) = 1 /\ WallHour(segs[1]) >= 0
    THEN Ok(DateTime(FALSE, WallHour(segs[1])))
    ELSE IF Len(segs) = 2 /\ WallHour(segs[1]) >= 0 /\ OffsetHours(segs[2]) >= 0
    THEN Ok(DateTime(TRUE, WallHour(segs[1]) - OffsetHours(segs[2])))
    ELSE Err("ValueError")

\* dt_str.endswith('Z')
EndsWithZ(segs) == Len(segs) >= 1 /\ segs[Len(segs)] = "Z"

\* A bug: the Z is cut off and no offset is put in its place.
StripZ(segs) == SubSeq(segs, 1, Len(segs) - 1)

\* dt_str[:-1] + '+00:00'
ReplaceZ(segs) == SubSeq(segs, 1, Len(segs) - 1) \o <<"+00:00">>

parse_datetime(v) ==
    IF ~Truthy(v) THEN Ok(JNull)
    ELSE IF v.t /= "str" THEN Err("AttributeError")
    ELSE The({ IF r.err = "" THEN r ELSE Ok(JNull)
               : r \in {fromisoformat(IF EndsWithZ(v.s) THEN ReplaceZ(v.s) ELSE v.s)} })

\* ------------------------------------------------- per-item conversion

\* The first exception among the evaluations rs (a sequence, in the order
\* Python evaluates them), "" when none raises.
FirstErr(rs) ==
    LET bad == { i \in 1..Len(rs) : rs[i].err /= "" }
    IN  IF bad = {} THEN ""
        ELSE rs[CHOOSE i \in bad : \A j \in bad : i <= j].err

\* data[k]: TypeError when data is no dict, KeyError when k is missing.
Index(data, k) ==
    IF data.t /= "obj" THEN Err("TypeError")
    ELSE IF k \notin DOMAIN data.o THEN Err("KeyError")
    ELSE Ok(data.o[k])

\* The keyword arguments are evaluated in the order they are written:
\* data["id"] first, the timestamps after it.
convert_user_data(data) ==
    The({ IF id.err /= "" THEN id
          ELSE IF created.err /= "" THEN created
          ELSE Ok([t |-> "User",
                   id |-> id.val,
                   username |-> Get(data, "username", JStr(<<>>)),
                   display_name |-> Get(data, "display_name",
                                        Get(data, "name", JStr(<<>>))),
                   email |-> Get(data, "email", JStr(<<>>)),
                   avatar_url |-> Get(data, "avatar_url", JNull),
                   created_at |-> created.val,
                   verified |-> Get(data, "verified", JBool(FALSE))])
          : id \in {Index(data, "id")},
            created \in {parse_datetime(Get(data, "created_at", JNull))} })

convert_channel_data(data) ==
    The({ IF id.err /= "" THEN id
          ELSE IF name.err /= "" THEN name
          ELSE IF created.err /= "" THEN created
          ELSE IF updated.err /= "" THEN updated
          ELSE Ok([t |-> "Channel",
                   id |-> id.val,
                   name |-> name.val,
                   platform |-> Get(data, "platform", JStr(<<>>)),
                   enabled |-> Get(data, "enabled", JBool(TRUE)),
                   url |-> Get(data, "url", JNull),
                   thumbnail_url |-> Get(data, "thumbnail_url", JNull),
                   description |-> Get(data, "description", JNull),
                   followers_count |-> Get(data, "followers_count", JNull),
                   created_at |-> created.val,
                   updated_at |-> updated.val])
          : id \in {Index(data, "id")},
            name \in {Index(data, "name")},
            created \in {parse_datetime(Get(data, "created_at", JNull))},
            updated \in {parse_datetime(Get(data, "updated_at", JNull))} })

convert_event_data(data) ==
    The({ IF id.err /= "" THEN id
          ELSE IF start.err /= "" THEN start
          ELSE IF end.err /= "" THEN end
          ELSE IF created.err /= "" THEN created
          ELSE IF updated.err /= "" THEN updated
          ELSE Ok([t |-> "StreamEvent",
                   id |-> id.val,
                   title |-> Get(data, "title", JStr(<<>>)),
                   status |-> Get(data, "status", JStr(<<>>)),
                   type |-> Get(data, "type", JStr(<<>>)),
                   start_time |-> start.val,
                   end_time |-> end.val,
                   duration |-> Get(data, "duration", JNull),
                   viewer_count |-> Get(data, "viewer_count", JNull),
                   peak_viewers |-> Get(data, "peak_viewers", JNull),
                   created_at |-> created.val,
                   updated_at |-> updated.val])
          : id \in {Index(data, "id")},
            start \in {parse_datetime(Get(data, "start_time", JNull))},
            end \in {parse_datetime(Get(data, "end_time", JNull))},
            created \in {parse_datetime(Get(data, "created_at", JNull))},
            updated \in {parse_datetime(Get(data, "updated_at", JNull))} })

\* ----------------------------------------------------- the operations

\* [convert(item) for item in v]: the list of the converted items, or the
\* first exception. A value that is no list is iterated as Python does: a
\* str by its characters and a dict by its keys (strings, on which
\* data["id"] raises TypeError), None, a number or a bool not at all.
ConvertItem(kind, item) ==
    IF kind = "channel" THEN convert_channel_data(item) ELSE convert_event_data(item)

\* A bug: the converted items come out last first.
ConvertItemsReversed(kind, v) ==
    IF v.t \in {"null", "num", "bool"} THEN Err("TypeError")
    ELSE IF v.t \in {"str", "obj"}
    THEN IF Truthy(v) THEN Err("TypeError") ELSE Ok(<<>>)
    ELSE The({ IF FirstErr(rs) /= "" THEN Err(FirstErr(rs))
               ELSE Ok([i \in 1..Len(v.a) |-> rs[Len(v.a) + 1 - i].val])
               : rs \in {[i \in 1..Len(v.a) |-> ConvertItem(kind, v.a[i])]} })

ConvertItems(kind, v) ==
    IF v.t \in {"null", "num", "bool"} THEN Err("TypeError")
    ELSE IF v.t \in {"str", "obj"}
    THEN IF Truthy(v) THEN Err("TypeError") ELSE Ok(<<>>)
    ELSE The({ IF FirstErr(rs) /= "" THEN Err(FirstErr(rs))
               ELSE Ok([i \in 1..Len(v.a) |-> rs[i].val])
               : rs \in {[i \in 1..Len(v.a) |-> ConvertItem(kind, v.a[i])]} })

\* A Python list of converted items.
PyList(items) == [t |-> "list", items |-> items]

\* get_profile after _make_request. On data that is no dict either the
\* test "user" in data or the subscript that follows it raises TypeError.
profile_of(data) ==
    IF data.t /= "obj" THEN Err("TypeError")
    ELSE The({ IF user.err /= "" THEN user
               ELSE Ok([t |-> "Profile",
                        user |-> user.val,
                        subscription_plan |-> Get(data, "subscription_plan", JNull),
                        streaming_quota |-> Get(data, "streaming_quota", JNull),
                        features |-> Get(data, "features", JNull)])
               : user \in {convert_user_data(IF "user" \in DOMAIN data.o
                                             THEN data.o["user"] ELSE data)} })

\* A bug: no fallback, the collection is read with data["channels"]
\* from whatever is no list.
channels_of_no_fallback(data) ==
    IF data.t = "arr"
    THEN The({ IF cs.err /= "" THEN cs ELSE Ok(PyList(cs.val))
               : cs \in {ConvertItems("channel", data)} })
    ELSE IF data.t = "obj" /\ "channels" \in DOMAIN data.o
    THEN The({ IF cs.err /= "" THEN cs
               ELSE Ok([t |-> "ChannelList",
                        channels |-> cs.val,
                        total |-> Get(data, "total", JNum(Len(cs.val)))])
               : cs \in {ConvertItems("channel", data.o["channels"])} })
    ELSE Index(data, "channels")

\* list_channels after _make_request.
channels_of(data) ==
    IF data.t = "arr"
    THEN The({ IF cs.err /= "" THEN cs ELSE Ok(PyList(cs.val))
               : cs \in {ConvertItems("channel", data)} })
    ELSE IF data.t = "obj" /\ "channels" \in DOMAIN data.o
    THEN The({ IF cs.err /= "" THEN cs
               ELSE Ok([t |-> "ChannelList",
                        channels |-> cs.val,
                        total |-> Get(data, "total", JNum(Len(cs.val)))])
               : cs \in {ConvertItems("channel", data.o["channels"])} })
    ELSE Ok(PyList(<<>>))

\* get_channel after _make_request.
channel_of(data) == convert_channel_data(data)

\* list_events after _make_request.
events_of(data) ==
    IF data.t = "arr"
    THEN The({ IF es.err /= "" THEN es ELSE Ok(PyList(es.val))
               : es \in {ConvertItems("event", data)} })
    ELSE IF data.t = "obj" /\ "events" \in DOMAIN data.o
    THEN The({ IF es.err /= "" THEN es
               ELSE Ok([t |-> "EventList",
                        events |-> es.val,
                        total |-> Get(data, "total", JNum(Len(es.val))),
                        page |-> Get(data, "page", JNum(1)),
                        per_page |-> Get(data, "per_page", JNum(20))])
               : es \in {ConvertItems("event", data.o["events"])} })
    ELSE Ok(PyList(<<>>))

\* The four public operations; get_channel takes the channel id.
ChannelIds == {"ch_1", "ch_2"}
Ops == { <<"get_profile">>, <<"list_channels">>, <<"list_events">> }
       \cup { <<"get_channel", c>> : c \in ChannelIds }

\* The endpoint an operation asks for, as path segments.
Endpoint(op) ==
    CASE op[1] = "get_profile" -> <<"/", "profile">>
      [] op[1] = "list_channels" -> <<"/", "channels">>
      [] op[1] = "list_events" -> <<"/", "events">>
      [] op[1] = "get_channel" -> <<"/", "channels", "/", op[2]>>

Normalize(op, data) ==
    CASE op[1] = "get_profile" -> profile_of(data)
      [] op[1] = "list_channels" -> channels_of(data)
      [] op[1] = "list_events" -> events_of(data)
      [] op[1] = "get_channel" -> channel_of(data)

\* ------------------------------------------------------- _make_request

\* An exception as the caller sees it. APIError carries the message, the
\* status code, the response text and the URL; the others their type.
APIError(message, status_code, response_text, url) ==
    [type |-> "APIError", message |-> message, status_code |-> status_code,
     response_text |-> response_text, url |-> url]
PyExc(type) ==
    [type |-> type, message |-> None, status_code |-> None,
     response_text |-> None, url |-> None]

\* What a call ends in: the value returned, or the exception raised.
Returned(v) == [exc |-> None, val |-> v]
Raised(e) == [exc |-> Some(e), val |-> JNull]

\* A response body: text that decodes to the JSON value v, or text that
\* does not decode.
Text(v) == [bad |-> FALSE, v |-> v]
BadText == [bad |-> TRUE, v |-> JNull]

BASE_URL == "https://api.restream.io/v1"

\* endpoint.lstrip('/')
RECURSIVE lstrip(_)
lstrip(segs) ==
    IF segs /= <<>> /\ Head(segs) = "/" THEN lstrip(Tail(segs)) ELSE segs

\* f"{BASE_URL}/{endpoint.lstrip('/')}"
Url(endpoint) == <<BASE_URL, "/">> \o lstrip(endpoint)

\* error_data.get("message", error_data.get("error", "API request failed"))
\* on the decoded body of a failed response; AttributeError when the body
\* decodes to something that is no dict, the generic message when it does
\* not decode.
ErrorMessage(body) ==
    IF body.bad THEN Ok(S("API request failed"))
    ELSE IF body.v.t /= "obj" THEN Err("AttributeError")
    ELSE Ok(Get(body.v, "message", Get(body.v, "error", S("API request failed"))))

\* A bug: the APIError of a failed response is raised without its status
\* code.
make_request_no_status(endpoint, resp, raises) ==
    IF resp.kind = "transport"
    THEN Raised(APIError(Some(JStr(<<"Network error: ", "ConnectionError">>)),
                         None, None, Some(Url(endpoint))))
    ELSE IF ~ResponseOk(resp.status)
    THEN The({ IF m.err /= "" THEN Raised(PyExc(m.err))
               ELSE Raised(APIError(Some(m.val), None,
                                    Some(resp.body), Some(Url(endpoint))))
               : m \in {ErrorMessage(resp.body)} })
    ELSE IF resp.body.bad
    THEN IF raises = "RequestException"
         THEN Raised(APIError(Some(JStr(<<"Network error: ", "JSONDecodeError">>)),
                              None, None, Some(Url(endpoint))))
         ELSE Raised(PyExc("ValueError"))
    ELSE Returned(resp.body.v)

\* A bug: a transport failure leaves _make_request as the exception that
\* session.request raised.
make_request_raw_transport(endpoint, resp, raises) ==
    IF resp.kind = "transport"
    THEN Raised(PyExc("ConnectionError"))
    ELSE IF ~ResponseOk(resp.status)
    THEN The({ IF m.err /= "" THEN Raised(PyExc(m.err))
               ELSE Raised(APIError(Some(m.val), Some(resp.status),
                                    Some(resp.body), Some(Url(endpoint))))
               : m \in {ErrorMessage(resp.body)} })
    ELSE IF resp.body.bad
    THEN IF raises = "RequestException"
         THEN Raised(APIError(Some(JStr(<<"Network error: ", "JSONDecodeError">>)),
                              None, None, Some(Url(endpoint))))
         ELSE Raised(PyExc("ValueError"))
    ELSE Returned(resp.body.v)

\* _make_request(method, endpoint) on the response resp of session.request.
\* raises is what response.json() raises on text that does not decode:
\* requests' JSONDecodeError is a RequestException from requests 2.27 on
\* and a plain ValueError before.
make_request(endpoint, resp, raises) ==
    IF resp.kind = "transport"
    THEN Raised(APIError(Some(JStr(<<"Network error: ", "ConnectionError">>)),
                         None, None, Some(Url(endpoint))))
    ELSE IF ~ResponseOk(resp.status)
    THEN The({ IF m.err /= "" THEN Raised(PyExc(m.err))
               ELSE Raised(APIError(Some(m.val), Some(resp.status),
                                    Some(resp.body), Some(Url(endpoint))))
               : m \in {ErrorMessage(resp.body)} })
    ELSE IF resp.body.bad
    THEN IF raises = "RequestException"
         THEN Raised(APIError(Some(JStr(<<"Network error: ", "JSONDecodeError">>)),
                              None, None, Some(Url(endpoint))))
         ELSE Raised(PyExc("ValueError"))
    ELSE Returned(resp.body.v)

\* A bug: the operation returns what _make_request gave it, unconverted.
InvokeUnconverted(op, resp, raises) ==
    make_request(Endpoint(op), resp, raises)

\* One invocation of the function under the retry wrapper: _make_request
\* and the conversion of what it returned.
Invoke(op, resp, raises) ==
    The({ IF r.exc /= None THEN r
          ELSE The({ IF n.err /= "" THEN Raised(PyExc(n.err)) ELSE Returned(n.val)
                     : n \in {Normalize(op, r.val)} })
          : r \in {make_request(Endpoint(op), resp, raises)} })

\* ------------------------------------------- retry_on_transient_error

\* A bug: max_retries counted as the retries after the first attempt.
MaxRetriesAfterFirst == 3 + 1

\* @retry_on_transient_error(max_retries=3)
MaxRetries == 3

\* The transient classifier: a transport failure (an APIError without a
\* status code) and the statuses 429 and 5xx.
TransientStatus(status) == status = 429 \/ (500 <= status /\ status <= 599)

Transient(e) ==
    /\ e.type = "APIError"
    /\ (e.status_code = None \/ TransientStatus(e.status_code[1]))

\* Whether the wrapper invokes the function again after the exception e of
\* attempt number made.
ShouldRetry(e, made) == Transient(e) /\ made < MaxRetries

\* ------------------------------------------------- a client's data calls

VARIABLES
    callOp,      \* callOp[p]: the operation being invoked, None when none was
    attempts,    \* attempts[p]: HTTP requests sent by this invocation
    errLog,      \* errLog[p]: the exception of each failed attempt, in order
    respLog,     \* respLog[p]: the response of each attempt, in order
    reqLog,      \* reqLog[p]: the request of each attempt, in order
    callResult   \* callResult[p]: what the invocation ended in, None before

callVars == <<callOp, attempts, errLog, respLog, reqLog, callResult>>

\* The statuses and bodies of failed responses.
ErrorStatuses == {401, 403, 404, 429, 503}
ErrorBodies == { Text(JObj([message |-> S("denied")])), BadText }

\* The bodies a 200 response to an operation may carry.
Stamp == JStr(<<"2024-01-20T09:00:00", "Z">>)
ChannelFull ==
    JObj([id |-> S("ch_1"), name |-> S("Main"), platform |-> S("twitch"),
          enabled |-> JBool(FALSE), followers_count |-> JNum(7),
          created_at |-> Stamp])
ChannelMin == JObj([id |-> S("ch_2"), name |-> S("M")])
EventFull == JObj([id |-> S("ev_1"), title |-> S("Show"), start_time |-> Stamp])
UserFlat == JObj([id |-> JNum(1), username |-> S("u"), subscription_plan |-> S("pro")])

SuccessBodies(op) ==
    CASE op[1] = "get_profile" ->
           { Text(UserFlat), Text(JObj([user |-> UserFlat])) }
      [] op[1] = "list_channels" ->
           { Text(JArr(<<ChannelFull, ChannelMin>>)),
             Text(JObj([channels |-> JArr(<<ChannelMin>>), total |-> JNum(5)])) }
      [] op[1] = "list_events" ->
           { Text(JArr(<<EventFull>>)), Text(JObj([events |-> JArr(<<EventFull>>)])) }
      [] op[1] = "get_channel" ->
           { Text(ChannelFull), Text(JObj([id |-> S("ch_3")])) }

\* What session.request may come back with.
Responses(op) ==
    { [kind |-> "transport", status |-> 0, body |-> BadText] }
    \cup { [kind |-> "http", status |-> st, body |-> b] :
             st \in ErrorStatuses, b \in ErrorBodies }
    \cup { [kind |-> "http", status |-> 200, body |-> b] :
             b \in SuccessBodies(op) \cup {BadText} }

CallInit ==
    /\ callOp = [p \in Procs |-> None]
    /\ attempts = [p \in Procs |-> 0]
    /\ errLog = [p \in Procs |-> <<>>]
    /\ respLog = [p \in Procs |-> <<>>]
    /\ reqLog = [p \in Procs |-> <<>>]
    /\ callResult = [p \in Procs |-> None]

\* A client just built has made no call.
ResetCall(p) ==
    /\ callOp' = [callOp EXCEPT ![p] = None]
    /\ attempts' = [attempts EXCEPT ![p] = 0]
    /\ errLog' = [errLog EXCEPT ![p] = <<>>]
    /\ respLog' = [respLog EXCEPT ![p] = <<>>]
    /\ reqLog' = [reqLog EXCEPT ![p] = <<>>]
    /\ callResult' = [callResult EXCEPT ![p] = None]

\* The caller invokes one of the client's operations.
call_start(p, op) ==
    /\ pc[p] = "ready"
    /\ pc' = [pc EXCEPT ![p] = "calling"]
    /\ callOp' = [callOp EXCEPT ![p] = Some(op)]
    /\ attempts' = [attempts EXCEPT ![p] = 0]
    /\ errLog' = [errLog EXCEPT ![p] = <<>>]
    /\ respLog' = [respLog EXCEPT ![p] = <<>>]
    /\ reqLog' = [reqLog EXCEPT ![p] = <<>>]
    /\ callResult' = [callResult EXCEPT ![p] = None]
    /\ UNCHANGED <<store, lastWriter, envVars, tokens, tnow, payload, tokResp,
                   ioFault, tokReqs, outcome,
                   excMessage, clientToken, sessionAuth, sessionOf, storeAtStart>>

\* One attempt of the wrapped operation: the request, the conversion of
\* the response, and the wrapper's decision to return, raise or go on.
\* The request goes out through self.session, with the headers that
\* session has then; responses is what session.request may come back with.
call_attempt_on(p, responses) ==
    /\ pc[p] = "calling"
    /\ reqLog' = [reqLog EXCEPT ![p] =
                    Append(@, [method |-> "GET",
                               url |-> Url(Endpoint(callOp[p][1])),
                               authorization |-> sessionAuth[sessionOf[p]]])]
    /\ \E resp \in responses :
         \E r \in {Invoke(callOp[p][1], resp, jsonError)} :
         LET made == attempts[p] + 1
         IN  /\ attempts' = [attempts EXCEPT ![p] = made]
             /\ respLog' = [respLog EXCEPT ![p] = Append(@, resp)]
             /\ errLog' = [errLog EXCEPT ![p] =
                             IF r.exc = None THEN @ ELSE Append(@, r.exc[1])]
             /\ IF r.exc /= None /\ ShouldRetry(r.exc[1], made)
                THEN UNCHANGED <<pc, callResult>>
                ELSE /\ pc' = [pc EXCEPT ![p] = "ready"]
                     /\ callResult' = [callResult EXCEPT ![p] = Some(r)]
    /\ UNCHANGED <<store, lastWriter, envVars, callOp, tokens, tnow, payload, tokResp,
                   ioFault, tokReqs,
                   outcome, excMessage, clientToken, sessionAuth, sessionOf,
                   storeAtStart>>

call_attempt(p) == call_attempt_on(p, Responses(callOp[p][1]))

\* ------------------------------------ one call of one function, alone

VARIABLES
    fnIn,    \* the function called and its argument, None when none is
    fnOut    \* what the call ended in, None before it has

pureVars == <<fnIn, fnOut>>
vars == <<store, lastWriter, envVars, authVars, callVars, pureVars>>

\* No function is called alone.
PureIdle == fnIn = None /\ fnOut = None

\* The statuses and bodies session.request may answer a gateway call with.
GatewayStatuses == {100, 200, 204, 301, 304, 400, 401, 404, 429, 500, 503}
GatewayBodies ==
    { Text(JObj([message |-> S("denied"), error |-> S("E1")])),
      Text(JObj([message |-> S("denied")])),
      Text(JObj([error |-> S("E1")])),
      Text(JObj([detail |-> S("D")])),
      Text(JObj(NoFields)),
      Text(JArr(<<S("denied")>>)),
      Text(S("denied")),
      Text(JNum(7)),
      Text(JNull),
      BadText }
GatewayResponses ==
    { [kind |-> "transport", status |-> 0, body |-> BadText] }
    \cup { [kind |-> "http", status |-> st, body |-> b] :
             st \in GatewayStatuses, b \in GatewayBodies }

\* self._make_request("GET", endpoint) on its own.
GatewayCalls ==
    { Some([f |-> "make_request", endpoint |-> Endpoint(op), resp |-> resp]) :
        op \in Ops, resp \in GatewayResponses }

gateway_call ==
    /\ fnIn /= None /\ fnIn[1].f = "make_request" /\ fnOut = None
    /\ fnOut' = Some(make_request(fnIn[1].endpoint, fnIn[1].resp, jsonError))
    /\ UNCHANGED <<store, lastWriter, envVars, authVars, callVars, fnIn>>

\* The raw values a timestamp field may hold.
TimestampValues ==
    { JStr(<<w>> \o z) : w \in {"2024-01-20T09:00:00", "2024-01-20T10:00:00"},
                         z \in {<<>>, <<"Z">>, <<"+00:00">>, <<"+01:00">>} }
    \cup { S("invalid"), S("Z"), JStr(<<"invalid", "Z">>), JStr(<<>>), JNull,
           JNum(0), JNum(5), JBool(FALSE), JBool(TRUE),
           JArr(<<>>), JArr(<<JNum(5)>>), JObj(NoFields) }

\* self._parse_datetime(value) on its own.
TimestampCalls == { Some([f |-> "parse_datetime", x |-> v]) : v \in TimestampValues }

parse_datetime_call ==
    /\ fnIn /= None /\ fnIn[1].f = "parse_datetime" /\ fnOut = None
    /\ fnOut' = Some(parse_datetime(fnIn[1].x))
    /\ UNCHANGED <<store, lastWriter, envVars, authVars, callVars, fnIn>>

\* The JSON object that has the fields of opts that are given.
Fields(opts) ==
    JObj([k \in { k \in DOMAIN opts : opts[k] /= None } |-> opts[k][1]])

\* An optional field: left out, or one of vs.
Opt(vs) == {None} \cup { Some(v) : v \in vs }

\* The raw timestamps the items carry.
ItemStamps == { Stamp, S("invalid"), JNum(5) }

\* Raw user, channel and event objects, with every field left out in some.
UserItems ==
    { Fields([id |-> id, username |-> un, display_name |-> dn, name |-> nm,
              created_at |-> ca]) :
        id \in Opt({JNum(1)}), un \in Opt({S("u")}), dn \in Opt({S("D")}),
        nm \in Opt({S("N")}), ca \in Opt(ItemStamps) }
ChannelItems ==
    { Fields([id |-> id, name |-> nm, followers_count |-> fc,
              thumbnail_url |-> th, created_at |-> ca]) :
        id \in Opt({S("ch_1")}), nm \in Opt({S("Main")}), fc \in Opt({JNum(7)}),
        th \in Opt({S("t.png")}), ca \in Opt(ItemStamps) }
EventItems ==
    { Fields([id |-> id, title |-> ti, viewer_count |-> vc, start_time |-> st]) :
        id \in Opt({S("ev_1")}), ti \in Opt({S("Show")}), vc \in Opt({JNum(3)}),
        st \in Opt(ItemStamps) }

\* self._convert_user_data(item), _convert_channel_data, _convert_event_data
\* on their own.
ConvertCalls ==
    { Some([f |-> "convert_user_data", x |-> i]) : i \in UserItems }
    \cup { Some([f |-> "convert_channel_data", x |-> i]) : i \in ChannelItems }
    \cup { Some([f |-> "convert_event_data", x |-> i]) : i \in EventItems }

convert_call ==
    /\ fnIn /= None /\ fnOut = None
    /\ fnIn[1].f \in {"convert_user_data", "convert_channel_data", "convert_event_data"}
    /\ fnOut' = Some(CASE fnIn[1].f = "convert_user_data" -> convert_user_data(fnIn[1].x)
                       [] fnIn[1].f = "convert_channel_data" -> convert_channel_data(fnIn[1].x)
                       [] fnIn[1].f = "convert_event_data" -> convert_event_data(fnIn[1].x))
    /\ UNCHANGED <<store, lastWriter, envVars, authVars, callVars, fnIn>>

\* The longest array a listing response carries.
MaxItems == 2

\* The sequences of at most n elements of set.
SeqsUpTo(set, n) == UNION { [1..k -> set] : k \in 0..n }

\* The bodies of 200 responses to list_channels and list_events: a bare
\* array, a mapping with the collection under its key, and everything
\* else.
ListedChannels == { ChannelFull, ChannelMin }
ListedEvents == { EventFull, JObj([id |-> S("ev_2")]) }
\* Events as the API documentation gives them (the payloads of
\* tests/test_event.py): with or without cover and start, with no, one and
\* two destinations.
Destination(channelId, externalUrl) ==
    JObj([channelId |-> JNum(channelId), externalUrl |-> externalUrl,
          streamingPlatformId |-> JNum(5)])
DocumentedEvent(id, coverUrl, startedAt, destinations) ==
    JObj([id |-> S(id), status |-> S("upcoming"), title |-> S("Event title"),
          description |-> S("Event description"), coverUrl |-> coverUrl,
          scheduledFor |-> JNum(1599983310), startedAt |-> startedAt,
          finishedAt |-> JNull, destinations |-> JArr(destinations)])
DocumentedEvents ==
    { DocumentedEvent("2527849f", S("URL or null"), JNull,
                      <<Destination(1, S("URL or null"))>>),
      DocumentedEvent("3fa85f64", JNull, JNum(1640995320),
                      <<Destination(1001, S("https://youtube.com/watch")),
                        Destination(1002, JNull)>>),
      DocumentedEvent("7b68c3e2", JNull, JNull, <<>>) }
OtherBodies ==
    { JObj(NoFields), JObj([items |-> JArr(<<ChannelFull>>)]),
      JObj([data |-> JObj([channels |-> JArr(<<ChannelMin>>),
                           events |-> JArr(<<EventFull>>)])]),
      JNull, JNum(0), JNum(3), S("channels"), JStr(<<>>), JBool(TRUE), JBool(FALSE) }
ChannelBodies ==
    { JArr(items) : items \in SeqsUpTo(ListedChannels, MaxItems) }
    \cup { Fields([channels |-> Some(JArr(items)), total |-> total]) :
             items \in SeqsUpTo(ListedChannels, MaxItems),
             total \in Opt({JNum(0), JNum(5), JNull}) }
    \cup { JArr(<<ChannelMin, JObj([name |-> S("M")])>>),
           JObj([events |-> JArr(<<EventFull>>)]) }
    \cup OtherBodies
EventBodies ==
    { JArr(items) : items \in SeqsUpTo(ListedEvents, MaxItems) }
    \cup { Fields([events |-> Some(JArr(items)), total |-> total,
                   page |-> page, per_page |-> per_page]) :
             items \in SeqsUpTo(ListedEvents, MaxItems),
             total \in Opt({JNum(5), JNull}),
             page \in Opt({JNum(2)}), per_page \in Opt({JNum(50)}) }
    \cup { JArr(items) : items \in SeqsUpTo(DocumentedEvents, MaxItems) \ {<<>>} }
    \cup { JArr(<<EventFull, JObj([title |-> S("T")])>>),
           JObj([channels |-> JArr(<<ChannelMin>>)]) }
    \cup OtherBodies

\* The bodies of 200 responses to get_profile: the fields of a user and of
\* a profile, flat, or with the user's fields under "user", all of them or
\* all but the id, which then stands at the top level, or stands there
\* too.
ProfileBodies ==
    UNION { { Fields([id |-> Some(JNum(1)), username |-> un, email |-> em,
                      subscription_plan |-> sp, features |-> ft]),
              Fields([user |-> Some(Fields([id |-> Some(JNum(1)), username |-> un,
                                            email |-> em])),
                      subscription_plan |-> sp, features |-> ft]),
              Fields([id |-> Some(JNum(1)),
                      user |-> Some(Fields([id |-> Some(JNum(1)), username |-> un,
                                            email |-> em])),
                      subscription_plan |-> sp, features |-> ft]),
              Fields([id |-> Some(JNum(1)),
                      user |-> Some(Fields([username |-> un, email |-> em])),
                      subscription_plan |-> sp, features |-> ft]) } :
            un \in Opt({S("u")}), em \in Opt({S("u@x")}),
            sp \in Opt({S("pro")}), ft \in Opt({JArr(<<S("analytics")>>)}) }

\* list_channels(), list_events() and get_profile() on their own, answered
\* 200 with the body x.
OperationCalls ==
    { Some([f |-> "operation", op |-> <<"list_channels">>, x |-> b]) : b \in ChannelBodies }
    \cup { Some([f |-> "operation", op |-> <<"list_events">>, x |-> b]) : b \in EventBodies }
    \cup { Some([f |-> "operation", op |-> <<"get_profile">>, x |-> b]) : b \in ProfileBodies }

\* The 200 response with the JSON body v.
Ok200(v) == [kind |-> "http", status |-> 200, body |-> Text(v)]

operation_call ==
    /\ fnIn /= None /\ fnIn[1].f = "operation" /\ fnOut = None
    /\ fnOut' = Some(Invoke(fnIn[1].op, Ok200(fnIn[1].x), jsonError))
    /\ UNCHANGED <<store, lastWriter, envVars, authVars, callVars, fnIn>>

\* ----------------------------------------------------- specifications

Init == AuthInit /\ CallInit /\ PureIdle

\* _refresh_token and save_tokens, step by step.
RefreshSteps(p) ==
    \/ refresh_token_post(p) /\ UNCHANGED <<callVars, pureVars>>
    \/ ensure_config_dir(p) /\ UNCHANGED <<callVars, pureVars>>
    \/ save_tokens_open(p) /\ UNCHANGED <<callVars, pureVars>>
    \/ save_tokens_write(p) /\ UNCHANGED <<callVars, pureVars>>
    \/ save_tokens_chmod(p) /\ UNCHANGED <<callVars, pureVars>>

\* from_config, called any number of times.
Acquire(p) ==
    \/ from_config(p) /\ ResetCall(p) /\ UNCHANGED pureVars
    \/ RefreshSteps(p)

\* from_config, called once.
AcquireOnce(p) ==
    \/ pc[p] = "idle" /\ from_config(p) /\ ResetCall(p) /\ UNCHANGED pureVars
    \/ RefreshSteps(p)

\* The data calls of the client from_config returned.
DataCall(p) ==
    \/ \E op \in Ops : call_start(p, op) /\ UNCHANGED pureVars
    \/ call_attempt(p) /\ UNCHANGED pureVars

ClockTick == Tick /\ UNCHANGED <<callVars, pureVars>>

\* RestreamClient(session, token): the constructor called directly, on a
\* session of the caller's.
TokenArgs == {"T1", "T2"}

client_init(p, token, session) ==
    /\ pc[p] \in {"idle", "ready"}
    /\ Construct(p, token, session)
    /\ ResetCall(p)
    /\ UNCHANGED <<store, lastWriter, envVars, tokens, tnow, payload, tokResp,
                   ioFault, tokReqs, storeAtStart,
                   pureVars>>

\* One process builds clients from the store.
Next == ClockTick \/ Acquire(1)
Spec == Init /\ [][Next]_vars

\* Several processes build a client each from the same store, concurrently.
NextRace == ClockTick \/ \E p \in Procs : AcquireOnce(p)
SpecRace == Init /\ [][NextRace]_vars

\* One process constructs clients and calls their operations, beside a
\* store that holds an expired, refreshable token set or nothing.
DataInit ==
    /\ Init
    /\ store \in {NoFile, FileWith(json_dump(Tok(Some("A0"), Some("R0"), Some(1))))}
    /\ clientId = Some("cid")
NextData ==
    (\E token \in TokenArgs : client_init(1, token, <<"caller", 1>>)) \/ DataCall(1)
SpecData == DataInit /\ [][NextData]_vars

\* One process builds clients from the store and calls their operations;
\* the API answers with a transport failure, with 401, with 503 or with
\* success.
ClientResponses(op) ==
    { [kind |-> "transport", status |-> 0, body |-> BadText] }
    \cup { [kind |-> "http", status |-> st, body |-> Text(JObj([message |-> S("denied")]))] :
             st \in {401, 503} }
    \cup { [kind |-> "http", status |-> 200, body |-> b] : b \in SuccessBodies(op) }
ClientInit ==
    /\ Init
    /\ jsonError = "RequestException"
ClientCall(p) ==
    \/ \E op \in Ops : call_start(p, op) /\ UNCHANGED pureVars
    \/ call_attempt_on(p, ClientResponses(callOp[p][1])) /\ UNCHANGED pureVars
NextClient == ClockTick \/ Acquire(1) \/ ClientCall(1)
SpecClient == ClientInit /\ [][NextClient]_vars

\* Several clients, constructed on sessions of the caller's, call
\* get_profile; the API answers with a profile or with 401.
SessionResponses ==
    { [kind |-> "http", status |-> 200, body |-> Text(UserFlat)],
      [kind |-> "http", status |-> 401,
       body |-> Text(JObj([message |-> S("denied")]))] }
SessionInit ==
    /\ Init
    /\ store = NoFile
    /\ clientId = None
    /\ jsonError = "RequestException"
NextSession ==
    \E p \in Procs :
        \/ \E token \in TokenArgs, session \in CallerSessions :
              client_init(p, token, session)
        \/ call_start(p, <<"get_profile">>) /\ UNCHANGED pureVars
        \/ call_attempt_on(p, SessionResponses) /\ UNCHANGED pureVars
SpecSession == SessionInit /\ [][NextSession]_vars

\* Nothing but the function called alone is in play.
Quiet ==
    /\ AuthInit /\ CallInit
    /\ store = NoFile
    /\ clientId = None

\* One gateway call, on every response it may get.
GatewayInit == Quiet /\ fnIn \in GatewayCalls /\ fnOut = None
NextGateway == gateway_call
SpecGateway == GatewayInit /\ [][NextGateway]_vars

\* One conversion: of a timestamp, of an item, of a whole response.
ConvertInit ==
    /\ Quiet
    /\ fnIn \in TimestampCalls \cup ConvertCalls \cup OperationCalls
    /\ fnOut = None
NextConvert == parse_datetime_call \/ convert_call \/ operation_call
SpecConvert == ConvertInit /\ [][NextConvert]_vars

\* =============================================================== claims

\* from_config has returned or raised.
Done(p) == pc[p] \in {"ready", "failed"} /\ outcome[p] /= ""

\* The token set from_config loaded has an access token, an expires_at that
\* had passed when it was checked (expiredAt: which expiry values count),
\* and a refresh token or none.
Loaded(p) == tokens[p] /= None
HasAccess(p) == Loaded(p) /\ TruthyStr(tokens[p][1].access_token)
Passed(p) ==
    /\ Loaded(p)
    /\ tokens[p][1].expires_at /= None
    /\ tnow[p] >= tokens[p][1].expires_at[1]
HasRefresh(p) == Loaded(p) /\ TruthyStr(tokens[p][1].refresh_token)

\* The environment lets a refresh succeed: the client id is configured and
\* the provider, when asked, answered 2xx with an access token.
RefreshCanSucceed(p) ==
    /\ TruthyStr(clientId)
    /\ tokReqs[p] > 0 => (payload[p] /= None /\ payload[p][1].access_token /= None)

\* C1: when the stored token set has an access token, an expires_at that
\* has passed and a refresh token, and the provider answers the refresh
\* successfully, from_config sends exactly one token-endpoint request and
\* the client it returns presents the access token of the refresh response,
\* not the stored one (the provider may answer with a token equal to the
\* stored one: what is stated is that the token is the response's).
C1_ExpiredTokenIsRefreshedOnce ==
    \A p \in Procs :
        (Done(p) /\ HasAccess(p) /\ Passed(p) /\ HasRefresh(p) /\ RefreshCanSucceed(p))
        => /\ tokReqs[p] = 1
           /\ outcome[p] = "client" => clientToken[p] = payload[p][1].access_token

\* C2: when the stored token set has an access token, an expires_at that
\* has passed and no refresh token, from_config fails with
\* AuthenticationError, sends no request, returns no client and leaves the
\* store unchanged.
C2_ExpiredUnrefreshableFails ==
    \A p \in Procs :
        (Done(p) /\ HasAccess(p) /\ Passed(p) /\ ~HasRefresh(p))
        => /\ outcome[p] = "AuthenticationError"
           /\ clientToken[p] = None
           /\ tokReqs[p] = 0
           /\ store = storeAtStart[p]

\* C3: for every stored token set whose expires_at is present and
\* now >= expires_at, from_config never returns a client that presents the
\* stored access token: it refreshes (and the client presents the token of
\* the refresh response) or fails.
C3_ExpiredTokenNeverPresented ==
    \A p \in Procs :
        (Done(p) /\ Passed(p) /\ outcome[p] = "client")
        => /\ tokReqs[p] >= 1
           /\ clientToken[p] = payload[p][1].access_token

\* C4: the store is changed only by a successful refresh: a from_config
\* whose refresh ended in one of the failures of the exchange with the
\* provider (missing client id, non-success status, transport error, a
\* 2xx response that does not decode or has no access_token field) leaves
\* the store as it was.
C4_FailedRefreshLeavesStore ==
    \A p \in Procs :
        (Done(p) /\ outcome[p] \in {"AuthenticationError", "ValueError", "KeyError"}
                 /\ FromConfigDecision(tokens[p], tnow[p]) = "refresh")
        => store = storeAtStart[p]

\* C5: every read of the store observes a complete token set (or no file),
\* never an empty, truncated or mixed text; storeAtStart[p] is what the
\* load_tokens() of process p read.
C5_EveryReadSeesCompleteTokenSet ==
    \A p \in Procs :
        pc[p] /= "idle"
        => (~storeAtStart[p].exists \/ WellFormed(storeAtStart[p].text))

\* C6: after a successful refresh the store holds exactly the payload the
\* provider returned (nothing of the previous content is retained), and the
\* access token the refresh returned is the access_token in the store.
C6_StoreHoldsExactlyThePayload ==
    \A p \in Procs :
        (pc[p] = "ready" /\ tokReqs[p] = 1)
        => /\ store = FileWith(json_dump(payload[p][1]))
           /\ load_tokens(store) = [err |-> "", val |-> payload[p]]
           /\ clientToken[p] = load_tokens(store).val[1].access_token

\* A refresh whose payload omits the refresh token and the expiry that the
\* previous token set had.
C6_Witness ==
    /\ pc[1] = "ready" /\ tokReqs[1] = 1
    /\ payload[1][1].refresh_token = None /\ payload[1][1].expires_at = None
    /\ tokens[1][1].refresh_token /= None /\ tokens[1][1].expires_at /= None
    /\ load_tokens(store).val[1].refresh_token = None

\* C7: from_config fails with AuthenticationError when the store holds no
\* token set or one without an access token, before it looks at the expiry:
\* no refresh starts and no request is sent, also when the token set is
\* expired and has a refresh token.
C7_NoAccessTokenFailsWithoutRequest ==
    \A p \in Procs :
        (pc[p] /= "idle" /\ (~storeAtStart[p].exists \/ (Loaded(p) /\ ~HasAccess(p))))
        => /\ pc[p] = "failed"
           /\ outcome[p] = "AuthenticationError"
           /\ tokReqs[p] = 0
           /\ store = storeAtStart[p]

\* A token set without access token that is expired and refreshable.
C7_Witness ==
    /\ pc[1] = "failed"
    /\ Loaded(1) /\ tokens[1][1].access_token = None
    /\ Passed(1) /\ tokens[1][1].expires_at /= Some(0) /\ HasRefresh(1)
    /\ TruthyStr(clientId)

\* The invocation of process p has ended.
Ended(p) == pc[p] = "ready" /\ callResult[p] /= None

\* The status of attempt i's response is a 4xx outside 429, or whatever
\* failure it was is transient (a transport failure, 429, a 5xx).
NonTransient4xx(resp) ==
    resp.kind = "http" /\ resp.status >= 400 /\ resp.status <= 499 /\ resp.status /= 429
TransientFailure(e) ==
    /\ e.type = "APIError"
    /\ e.status_code = None \/ e.status_code[1] = 429
         \/ (e.status_code[1] >= 500 /\ e.status_code[1] <= 599)

\* C8: an invocation of a read operation sends at most 3 HTTP requests;
\* when every attempt fails with a transient failure it stops after the
\* third and the caller receives the third attempt's error unchanged.
C8_AtMostThreeAttempts ==
    \A p \in Procs :
        /\ attempts[p] <= 3
        /\ Len(respLog[p]) = attempts[p]
        /\ (Ended(p) /\ Len(errLog[p]) = attempts[p]
                     /\ \A i \in 1..Len(errLog[p]) : TransientFailure(errLog[p][i]))
           => /\ attempts[p] = 3
              /\ callResult[p][1] = Raised(errLog[p][3])

\* Three transient failures of three different kinds, the last one being
\* what the caller received.
C8_Witness ==
    /\ Ended(1) /\ attempts[1] = 3 /\ Len(errLog[1]) = 3
    /\ errLog[1][1].status_code = None
    /\ errLog[1][2].status_code = Some(429)
    /\ errLog[1][3].status_code = Some(503)
    /\ callResult[1][1].exc = Some(errLog[1][3])

\* C9: an invocation whose first two attempts fail with a transient failure
\* and whose third attempt succeeds returns the converted body of the third
\* response, and no error.
C9_ThirdAttemptResultReturned ==
    \A p \in Procs :
        (Ended(p) /\ attempts[p] = 3 /\ Len(errLog[p]) = 2)
        => /\ TransientFailure(errLog[p][1]) /\ TransientFailure(errLog[p][2])
           /\ callResult[p][1].exc = None
           /\ ~respLog[p][3].body.bad
           /\ Ok(callResult[p][1].val) = Normalize(callOp[p][1], respLog[p][3].body.v)
           /\ (callOp[p][1][1] = "get_channel" /\ respLog[p][3].body = Text(ChannelFull))
              => callResult[p][1].val =
                   [t |-> "Channel", id |-> S("ch_1"), name |-> S("Main"),
                    platform |-> S("twitch"), enabled |-> JBool(FALSE),
                    url |-> JNull, thumbnail_url |-> JNull, description |-> JNull,
                    followers_count |-> JNum(7),
                    created_at |-> DateTime(TRUE, 9), updated_at |-> JNull]

\* get_channel: a 503, a transport failure, then the channel.
C9_Witness ==
    /\ Ended(1) /\ attempts[1] = 3 /\ Len(errLog[1]) = 2
    /\ callOp[1][1][1] = "get_channel"
    /\ errLog[1][1].status_code = Some(503)
    /\ errLog[1][2].status_code = None
    /\ respLog[1][3].body = Text(ChannelFull)
    /\ callResult[1][1].exc = None

\* C10: an invocation whose first attempt gets a 4xx status outside the
\* transient set (401, 403, 404) fails at once: one HTTP request is sent and
\* the caller receives the error of that attempt, with its status.
C10_NonTransientFailsAtOnce ==
    \A p \in Procs :
        (Len(respLog[p]) >= 1 /\ NonTransient4xx(respLog[p][1]))
        => /\ attempts[p] = 1
           /\ Ended(p)
           /\ callResult[p][1] = Raised(errLog[p][1])
           /\ errLog[p][1].type = "APIError"
           /\ errLog[p][1].status_code = Some(respLog[p][1].status)

\* list_events answered 401.
C10_Witness ==
    /\ Ended(1) /\ attempts[1] = 1
    /\ callOp[1][1][1] = "list_events"
    /\ respLog[1][1].status = 401
    /\ callResult[1][1].exc /= None

\* The gateway call of this state has ended, on an HTTP response.
GatewayDone == fnIn /= None /\ fnIn[1].f = "make_request" /\ fnOut /= None

\* The message the error of a failed response should carry: the body's
\* message field, else its error field, else the generic message.
ExpectedMessage(body) ==
    IF ~body.bad /\ body.v.t = "obj" /\ "message" \in DOMAIN body.v.o
    THEN body.v.o["message"]
    ELSE IF ~body.bad /\ body.v.t = "obj" /\ "error" \in DOMAIN body.v.o
    THEN body.v.o["error"]
    ELSE S("API request failed")

\* C11: a gateway call whose response has a status outside 2xx, whatever
\* its body, ends in APIError with the status, the raw body and the URL,
\* and with the message taken from the body's message field, else its
\* error field, else generic.
C11_Non2xxEndsInAPIError ==
    (GatewayDone /\ fnIn[1].resp.kind = "http"
                 /\ ~(200 <= fnIn[1].resp.status /\ fnIn[1].resp.status <= 299))
    => fnOut[1] = Raised(APIError(Some(ExpectedMessage(fnIn[1].resp.body)),
                                  Some(fnIn[1].resp.status),
                                  Some(fnIn[1].resp.body),
                                  Some(<<BASE_URL, "/">> \o Tail(fnIn[1].endpoint))))

\* C12: a gateway call whose request fails at transport level ends in
\* APIError that names the cause, carries the URL of the request and has
\* no status code; no other exception leaves the call.
C12_TransportFailureIsAPIError ==
    (GatewayDone /\ fnIn[1].resp.kind = "transport")
    => /\ fnOut[1].exc /= None
       /\ fnOut[1].exc[1].type = "APIError"
       /\ fnOut[1].exc[1].status_code = None
       /\ fnOut[1].exc[1].url = Some(<<BASE_URL, "/">> \o Tail(fnIn[1].endpoint))
       /\ fnOut[1].exc[1].message = Some(JStr(<<"Network error: ", "ConnectionError">>))

\* The request for channel ch_2 failed at transport level.
C12_Witness ==
    /\ GatewayDone /\ fnIn[1].resp.kind = "transport"
    /\ fnIn[1].endpoint = <<"/", "channels", "/", "ch_2">>
    /\ fnOut[1].exc /= None
    /\ fnOut[1].exc[1].url = Some(<<BASE_URL, "/", "channels", "/", "ch_2">>)

\* C13: every data request sent through a client carries the header
\* Authorization: Bearer <the token that client was constructed with>,
\* also when several clients are constructed on one session.
C13_RequestsCarryTheClientsToken ==
    \A p \in Procs :
        \A i \in 1..Len(reqLog[p]) :
            /\ clientToken[p] /= None
            /\ reqLog[p][i].authorization = Some(<<"Bearer", clientToken[p][1]>>)

\* The call of list_channels or list_events of this state has ended.
ListingDone ==
    /\ fnIn /= None /\ fnIn[1].f = "operation" /\ fnOut /= None
    /\ fnIn[1].op[1] \in {"list_channels", "list_events"}

\* The items a listing converts to, and the well-formed raw items.
ItemKind == IF fnIn[1].op[1] = "list_channels" THEN "channel" ELSE "event"
Listed == IF fnIn[1].op[1] = "list_channels" THEN ListedChannels ELSE ListedEvents
AllListed(arr) == arr.t = "arr" /\ \A i \in 1..Len(arr.a) : arr.a[i] \in Listed

\* C14: on a body that is a bare array of well-formed items list_channels
\* and list_events return a plain list, as long as the array, whose i-th
\* element is the conversion of the array's i-th element.
C14_BareArrayGivesBareSequence ==
    (ListingDone /\ AllListed(fnIn[1].x))
    => /\ fnOut[1].exc = None
       /\ fnOut[1].val.t = "list"
       /\ Len(fnOut[1].val.items) = Len(fnIn[1].x.a)
       /\ \A i \in 1..Len(fnIn[1].x.a) :
            /\ fnOut[1].val.items[i] = ConvertItem(ItemKind, fnIn[1].x.a[i]).val
            /\ fnOut[1].val.items[i].id = fnIn[1].x.a[i].o["id"]

\* list_channels on [ChannelMin, ChannelFull]: ch_2 first, ch_1 second.
C14_Witness ==
    /\ ListingDone /\ fnIn[1].op[1] = "list_channels"
    /\ fnIn[1].x = JArr(<<ChannelMin, ChannelFull>>)
    /\ fnOut[1].val.t = "list"
    /\ Len(fnOut[1].val.items) = 2
    /\ fnOut[1].val.items[1].id = S("ch_2")
    /\ fnOut[1].val.items[2].id = S("ch_1")

\* The key a listing's collection stands under in a mapping.
ListKey == IF fnIn[1].op[1] = "list_channels" THEN "channels" ELSE "events"

\* The body is a mapping with the collection, well-formed, under its key.
Paginated ==
    /\ ListingDone
    /\ fnIn[1].x.t = "obj" /\ ListKey \in DOMAIN fnIn[1].x.o
    /\ AllListed(fnIn[1].x.o[ListKey])

\* The field k of the body, or the default when the body has none.
BodyField(k, default) ==
    IF k \in DOMAIN fnIn[1].x.o THEN fnIn[1].x.o[k] ELSE default

\* C15: on a mapping that has the collection under its key the result is a
\* paginated record: its items the converted elements in order, its total
\* the response's total when present and the element count otherwise, and
\* so always a number; for events also page (default 1) and per_page
\* (default 20).
C15_MappingGivesPaginatedRecord ==
    Paginated
    => LET raw == fnIn[1].x.o[ListKey].a
           res == fnOut[1].val
           items == IF ItemKind = "channel" THEN res.channels ELSE res.events
       IN  /\ fnOut[1].exc = None
           /\ res.t = (IF ItemKind = "channel" THEN "ChannelList" ELSE "EventList")
           /\ Len(items) = Len(raw)
           /\ \A i \in 1..Len(raw) : items[i] = ConvertItem(ItemKind, raw[i]).val
           /\ res.total = BodyField("total", JNum(Len(raw)))
           /\ res.total.t = "num"
           /\ ItemKind = "event"
              => /\ res.page = BodyField("page", JNum(1))
                 /\ res.per_page = BodyField("per_page", JNum(20))

\* The body is neither a sequence nor a mapping that has the collection's
\* key.
Unrecognized ==
    /\ ListingDone
    /\ fnIn[1].x.t /= "arr"
    /\ ~(fnIn[1].x.t = "obj" /\ ListKey \in DOMAIN fnIn[1].x.o)

\* C16: on a decoded body that is neither a sequence nor a mapping with
\* the collection's key (a mapping without it, a scalar, null)
\* list_channels and list_events return an empty plain list and raise
\* nothing.
C16_UnrecognizedGivesEmptySequence ==
    Unrecognized
    => /\ fnOut[1].exc = None
       /\ fnOut[1].val = [t |-> "list", items |-> <<>>]

\* list_events on a mapping that has channels but no events.
C16_Witness ==
    /\ Unrecognized /\ fnIn[1].op[1] = "list_events"
    /\ fnIn[1].x = JObj([channels |-> JArr(<<ChannelMin>>)])
    /\ fnOut[1] = Returned([t |-> "list", items |-> <<>>])

\* The conversion of a raw user, channel or event of this state has ended.
ConvertDone ==
    /\ fnIn /= None /\ fnOut /= None
    /\ fnIn[1].f \in {"convert_user_data", "convert_channel_data", "convert_event_data"}

\* The value a converted field has when the raw object lacks it.
Absent(res, k) ==
    k \notin DOMAIN fnIn[1].x.o => res[k] = JNull

\* C17: the conversion of a raw user, channel or event fails only when id
\* is absent: with an id it succeeds whatever else is missing, keeps the
\* id, and every missing optional field is absent in the result.
C17_OnlyMissingIdFailsConversion ==
    ConvertDone
    => /\ fnOut[1].err /= "" => "id" \notin DOMAIN fnIn[1].x.o
       /\ "id" \in DOMAIN fnIn[1].x.o
          => /\ fnOut[1].err = ""
             /\ fnOut[1].val.id = fnIn[1].x.o["id"]
             /\ Absent(fnOut[1].val, "created_at")
             /\ fnIn[1].f = "convert_channel_data"
                => /\ Absent(fnOut[1].val, "followers_count")
                   /\ Absent(fnOut[1].val, "thumbnail_url")
             /\ fnIn[1].f = "convert_event_data"
                => /\ Absent(fnOut[1].val, "viewer_count")
                   /\ Absent(fnOut[1].val, "start_time")

\* The call of _parse_datetime of this state has ended.
TimestampDone == fnIn /= None /\ fnIn[1].f = "parse_datetime" /\ fnOut /= None

\* C18: the conversion of a timestamp never fails: on every raw value (a
\* valid string, a malformed one, an empty one, null, a value that is no
\* string) it yields an instant or absent, and the conversion of the
\* object that carries the value is not aborted by it.
C18_TimestampConversionNeverFails ==
    /\ TimestampDone
       => /\ fnOut[1].err = ""
          /\ fnOut[1].val = JNull \/ fnOut[1].val.t = "datetime"
    /\ (ConvertDone /\ "id" \in DOMAIN fnIn[1].x.o
                     /\ (fnIn[1].f = "convert_channel_data"
                           => "name" \in DOMAIN fnIn[1].x.o))
       => fnOut[1].err = ""

\* The timestamp of this state is a string that ends in Z.
ZForm == TimestampDone /\ fnIn[1].x.t = "str" /\ fnIn[1].x.s /= <<>>
         /\ fnIn[1].x.s[Len(fnIn[1].x.s)] = "Z"

\* The same string with +00:00 in place of its trailing Z.
OffsetForm == JStr(SubSeq(fnIn[1].x.s, 1, Len(fnIn[1].x.s) - 1) \o <<"+00:00">>)

\* C19: a timestamp string with a trailing Z parses to the instant that
\* the string with +00:00 in place of the Z parses to; for an ISO-8601
\* string that is an instant in UTC.
C19_ZAndUtcOffsetAreTheSameInstant ==
    ZForm
    => /\ fnOut[1] = parse_datetime(OffsetForm)
       /\ fnIn[1].x.s[1] \in {"2024-01-20T09:00:00", "2024-01-20T10:00:00"}
          => /\ fnOut[1].err = ""
             /\ fnOut[1].val.t = "datetime"
             /\ fnOut[1].val.aware

\* "2024-01-20T09:00:00Z" parsed to 09:00 UTC, as "2024-01-20T09:00:00+00:00" does.
C19_Witness ==
    /\ ZForm
    /\ fnIn[1].x = JStr(<<"2024-01-20T09:00:00", "Z">>)
    /\ fnOut[1].val = [t |-> "datetime", aware |-> TRUE, hour |-> 9]
    /\ parse_datetime(JStr(<<"2024-01-20T09:00:00", "+00:00">>)).val = fnOut[1].val

\* The call of get_profile of this state has ended.
ProfileDone ==
    /\ fnIn /= None /\ fnIn[1].f = "operation" /\ fnOut /= None
    /\ fnIn[1].op[1] = "get_profile"

\* The flat payload of the logical user of a payload: the fields under
\* "user", when there are any, beside the other top-level fields.
Flat(data) ==
    IF "user" \in DOMAIN data.o
    THEN JObj([k \in (DOMAIN data.o \ {"user"}) \cup DOMAIN data.o["user"].o |->
                 IF k \in DOMAIN data.o["user"].o
                 THEN data.o["user"].o[k] ELSE data.o[k]])
    ELSE data

\* C20: a profile payload with the user's fields under "user" (some of
\* them, such as id, possibly at the top level beside it) gives the User
\* that the flat payload of the same logical user gives, and the Profile's
\* own fields are read from the top level in both shapes.
C20_NestedAndFlatProfilesAgree ==
    ProfileDone
    => /\ fnOut[1].exc = None
       /\ fnOut[1].val.t = "Profile"
       /\ fnOut[1].val.user = convert_user_data(Flat(fnIn[1].x)).val
       /\ fnOut[1].val.user.id = JNum(1)
       /\ fnOut[1].val.subscription_plan = BodyField("subscription_plan", JNull)
       /\ fnOut[1].val.features = BodyField("features", JNull)

\* C21: with no client id configured, a refresh fails with
\* AuthenticationError before any request goes to the token endpoint and
\* without a write to the store; so from_config on a token set with an
\* access token, a passed expires_at and a refresh token ends in
\* AuthenticationError with no request, no client and the store as it was.
C21_NoClientIdFailsBeforeAnyRequest ==
    \A p \in Procs :
        (/\ Done(p)
         /\ ~TruthyStr(clientId)
         /\ \/ FromConfigDecision(tokens[p], tnow[p]) = "refresh"
            \/ HasAccess(p) /\ Passed(p) /\ HasRefresh(p))
        => /\ outcome[p] = "AuthenticationError"
           /\ clientToken[p] = None
           /\ tokReqs[p] = 0
           /\ store = storeAtStart[p]

\* The POST of p's refresh ended in a transport failure; in a response
\* whose status is outside 200..299.
TransportFailed(p) == tokResp[p] /= None /\ tokResp[p][1].kind = "transport"
NonSuccess(p) ==
    /\ tokResp[p] /= None
    /\ tokResp[p][1].kind /= "transport"
    /\ tokResp[p][1].status \notin 200..299

\* C22: a refresh whose request is answered with a non-success status ends
\* in AuthenticationError carrying that status, and one whose request fails
\* in transport ends in AuthenticationError wrapping the transport error;
\* in both cases no other exception type is raised, exactly one token
\* request was sent, and from_config returns no client.
C22_FailedRefreshIsAuthenticationError ==
    \A p \in Procs :
        (Done(p) /\ (TransportFailed(p) \/ NonSuccess(p)))
        => /\ outcome[p] = "AuthenticationError"
           /\ NonSuccess(p) => excMessage[p].status = Some(tokResp[p][1].status)
           /\ TransportFailed(p)
              => excMessage[p].text = "Network error during token refresh: ConnectionError"
           /\ tokReqs[p] = 1
           /\ clientToken[p] = None

\* C23: a failure of a step of the store access (the mkdir or chmod of the
\* directory; the open, write or chmod of the token file; the read or the
\* JSON decode of load_tokens) ends from_config at once in a generic
\* failure, RuntimeError or OSError, never in AuthenticationError or
\* APIError: no client is returned, no step follows the failed one, and no
\* further token request is sent.
C23_StorageFailureIsGenericAndFatal ==
    \A p \in Procs :
        ioFault[p] /= ""
        => /\ pc[p] = "failed"
           /\ outcome[p] \in {"RuntimeError", "OSError"}
           /\ clientToken[p] = None
           /\ tokReqs[p] = (IF ioFault[p] \in {"read", "decode"} THEN 0 ELSE 1)

\* A write that failed part-way, after the refresh was answered.
C23_Witness ==
    /\ ioFault[1] = "write"
    /\ pc[1] = "failed"
    /\ tokReqs[1] = 1
    /\ store /= storeAtStart[1]

\* list_events has ended on a bare array of events in the documented
\* format.
DocumentedListing ==
    /\ ListingDone /\ fnIn[1].op[1] = "list_events"
    /\ fnIn[1].x.t = "arr" /\ Len(fnIn[1].x.a) > 0
    /\ \A i \in 1..Len(fnIn[1].x.a) : fnIn[1].x.a[i] \in DocumentedEvents

\* The StreamEvent ev carries what the element raw of the response has
\* under the keys of the documented format, its destinations one by one.
CarriesDocumentedFields(ev, raw) ==
    /\ \A k \in {"description", "coverUrl", "scheduledFor", "startedAt",
                 "finishedAt", "destinations"} : k \in DOMAIN ev
    /\ ev.description = raw.o["description"]
    /\ ev.coverUrl = raw.o["coverUrl"]
    /\ ev.scheduledFor = raw.o["scheduledFor"]
    /\ ev.startedAt = raw.o["startedAt"]
    /\ ev.finishedAt = raw.o["finishedAt"]
    /\ Len(ev.destinations) = Len(raw.o["destinations"].a)
    /\ \A j \in 1..Len(ev.destinations) :
         LET d == ev.destinations[j]
             r == raw.o["destinations"].a[j].o
         IN  /\ d.channelId = r["channelId"]
             /\ d.externalUrl = r["externalUrl"]
             /\ d.streamingPlatformId = r["streamingPlatformId"]

\* C24: on a bare array of events in the documented format list_events
\* returns one StreamEvent per element, in order, carrying the element's
\* description, coverUrl, scheduledFor, startedAt and finishedAt, and as
\* destinations the element's destinations, one EventDestination each, in
\* the same order.
C24_DocumentedEventFieldsAreCarried ==
    DocumentedListing
    => /\ fnOut[1].exc = None
       /\ fnOut[1].val.t = "list"
       /\ Len(fnOut[1].val.items) = Len(fnIn[1].x.a)
       /\ \A i \in 1..Len(fnIn[1].x.a) :
            CarriesDocumentedFields(fnOut[1].val.items[i], fnIn[1].x.a[i])

\* Both processes ran from_config on the same stored token set, which has
\* an access token, a passed expires_at and a refresh token, and both have
\* returned a client.
BothAcquiredExpired ==
    /\ TruthyStr(clientId)
    /\ storeAtStart[1] = storeAtStart[2]
    /\ \A p \in Procs :
         /\ pc[p] = "ready" /\ outcome[p] = "client"
         /\ HasAccess(p) /\ Passed(p) /\ HasRefresh(p)

\* C25: when two processes run from_config concurrently on the same
\* expired, refreshable token set, each sends a refresh request and each
\* writes the store, and once both have returned the store holds exactly
\* the payload of the process that wrote last, with nothing of the other's
\* payload left in it.
C25_LastWriterWins ==
    BothAcquiredExpired
    => /\ \A p \in Procs : tokReqs[p] = 1
       /\ lastWriter \in Procs
       /\ store = FileWith(json_dump(payload[lastWriter][1]))

\* The token set from_config loaded has an access token and an expires_at
\* that is absent or lies in the future.
NotYetExpired(p) ==
    /\ HasAccess(p)
    /\ \/ tokens[p][1].expires_at = None
       \/ tnow[p] < tokens[p][1].expires_at[1]

\* A token request was sent or the store written by from_config only when
\* the loaded token set had an access token, a passed expires_at and a
\* refresh token; on a set not yet expired from_config returns a client
\* that presents the stored access token, with no request and no write.
RefreshOnlyWhenExpired ==
    \A p \in {1} :
        /\ (pc[p] /= "idle" /\ (tokReqs[p] > 0 \/ store /= storeAtStart[p]))
           => (HasAccess(p) /\ Passed(p) /\ HasRefresh(p))
        /\ (pc[p] \in {"ready", "calling"} /\ NotYetExpired(p))
           => /\ outcome[p] = "client"
              /\ clientToken[p] = tokens[p][1].access_token
              /\ sessionAuth[sessionOf[p]] = Some(Bearer(clientToken[p][1]))
              /\ tokReqs[p] = 0
              /\ store = storeAtStart[p]
              /\ \A i \in 1..Len(reqLog[p]) :
                   reqLog[p][i].authorization = Some(Bearer(tokens[p][1].access_token[1]))

\* A step of a data operation (its invocation, or one of its attempts)
\* sends no token request, leaves the store, the client's token and the
\* header the session presents as they were.
DataStepKeepsTokens ==
    \A p \in {1} :
        (pc[p] = "calling" \/ pc'[p] = "calling")
        => /\ store' = store
           /\ lastWriter' = lastWriter
           /\ tokReqs' = tokReqs
           /\ clientToken' = clientToken
           /\ sessionAuth' = sessionAuth

\* C26: token requests and store writes happen only inside from_config and
\* only when the loaded token set has an access token, a passed expires_at
\* and a refresh token: on a token set whose expires_at is absent or in
\* the future from_config returns a client with the stored access token,
\* without token request and without store write; and no data operation,
\* whether it returns, fails with 401 or exhausts its retries, refreshes
\* the token, changes the token the client presents or writes the store.
C26_RefreshOnlyInsideAcquire ==
    [](RefreshOnlyWhenExpired) /\ [][DataStepKeepsTokens]_vars

\* A client on a stored token that is not yet expired, whose get_profile
\* was answered 401.
C26_Witness ==
    /\ pc[1] = "ready" /\ NotYetExpired(1)
    /\ callResult[1] /= None /\ callResult[1][1].exc /= None
    /\ callResult[1][1].exc[1].status_code = Some(401)
    /\ tokReqs[1] = 0 /\ store = storeAtStart[1]

====
